---- MODULE Spec2Model ----
(***************************************************************************)
(* Model of the hybrid identity store of galeria: DatabaseManager          *)
(* (src/backend/db_manager.py), one SQLite connection plus one FAISS       *)
(* IndexIDMap(IndexFlatIP), and the per-face loop of ProcesadorDeFotos     *)
(* (src/backend/procesador_de_fotos.py).                                   *)
(*                                                                         *)
(* The connection is modelled by two copies of the tables: db is what the  *)
(* connection sees (committed rows plus the rows of the open transaction), *)
(* disk is what has been committed.  commit copies db to disk, rollback    *)
(* copies disk to db.  The tables are sequences: every table is            *)
(* INTEGER PRIMARY KEY AUTOINCREMENT and the code never deletes, so the    *)
(* row id is the position, and the next id is Len + 1 (sqlite_sequence is  *)
(* itself transactional, so a rolled back id is handed out again).         *)
(* index is the FAISS index in RAM, indexDisk the file written by          *)
(* faiss.write_index.                                                      *)
(***************************************************************************)
EXTENDS Integers, Sequences, FiniteSets, TLC

VARIABLES db, disk, index, indexDisk, last, creados, ultimoCreado, completas,
          hilos

vars ==
    <<db, disk, index, indexDisk, last, creados, ultimoCreado, completas, hilos>>

(***************************************************************************)
(* Bounds of the model and program constants.                              *)
(***************************************************************************)
MaxPersonas == 2
MaxRostros == 3
MaxLote == 2
MaxEtiquetas == 3
\* DIMENSION_EMBEDDING is 512 in the source; the model keeps the role of the
\* constant (the one length the index accepts) with vectors of length 2.
DIMENSION_EMBEDDING == 2
\* foto_id=15, the photo id procesando_caras passes to registrar_nueva_persona.
FOTO_PROCESADOR == 15

\* SQL NULL / Python None for integer columns and results (row ids start at 1).
NULL == 0
\* None as the result of obtener_ruta_foto (no row of that id).
SIN_RUTA == ""
\* SQL NULL for the embedding_blob column.
NULL_BLOB == <<>>
\* The id FAISS returns when it has no neighbour.
NO_ENCONTRADO == -1

\* umbral=0.55, the default of identificar_persona_por_vector, as a fraction.
UMBRAL_DEFECTO == [num |-> 55, den |-> 100]
\* The thresholds a caller passes: the default, and 1.0.
Umbrales == {UMBRAL_DEFECTO, [num |-> 1, den |-> 1]}

\* Embeddings of the index dimension (integer norms, so that L2
\* normalisation is exact): pairwise cosine distances 0.2, 0.4 and 1.0.
Embeddings == {<<5, 0>>, <<4, 3>>, <<0, 5>>}
\* An embedding whose length is not the index dimension.
EmbeddingMalo == <<5, 0, 0>>
EmbeddingsEntrada == Embeddings \cup {EmbeddingMalo}

\* Names passed to registrar_nueva_persona, names passed to renombrar_persona.
NombresRegistro == {"", "Desconocido"}
NombresRenombrar == {"Desconocido", "Ana"}
FotoIds == {1}

\* Inputs of registrar_foto: paths, and content hashes (NULL: no hash).
Rutas == {"a.jpg", "b.jpg"}
Hashes == {NULL, 1, 2}
\* Inputs of crear_o_recuperar_etiqueta.
Textos == {"Ana", "playa"}
Tipos == {"persona", "general"}
\* Inputs of asignar_etiqueta: photo ids and tag ids.
FotosEnlace == {1}
EtiquetasEnlace == {1, 2}

(***************************************************************************)
(* Vector arithmetic: faiss.normalize_L2, inner product, 1 - similarity.   *)
(* A normalised vector is kept exactly, as integer numerators over one     *)
(* common denominator, reduced; a similarity or distance is a fraction     *)
(* [num, den] with den > 0.                                                *)
(***************************************************************************)
RECURSIVE SumaProd(_, _, _)
SumaProd(a, b, n) == IF n = 0 THEN 0 ELSE a[n] * b[n] + SumaProd(a, b, n - 1)

Dot(a, b) == SumaProd(a, b, Len(a))

Abs(x) == IF x < 0 THEN -x ELSE x

RECURSIVE MCD(_, _)
MCD(a, b) == IF b = 0 THEN a ELSE MCD(b, a % b)

RECURSIVE MCDVec(_, _)
MCDVec(v, n) == IF n = 0 THEN 0 ELSE MCD(Abs(v[n]), MCDVec(v, n - 1))

Raiz(n) == CHOOSE r \in 0..n : r * r = n

\* faiss.normalize_L2 of one row: v / |v|; a zero row is left as it is.
normalize_L2(v) ==
    LET n == Raiz(Dot(v, v))
        g == MCD(n, MCDVec(v, Len(v)))
    IN  IF n = 0 THEN [num |-> v, den |-> 1]
        ELSE [num |-> [i \in DOMAIN v |-> v[i] \div g], den |-> n \div g]

\* Inner product of two normalised vectors (IndexFlatIP's score).
Similitud(u, w) == [num |-> Dot(u.num, w.num), den |-> u.den * w.den]

\* distancia = 1.0 - mejor_similitud
Distancia(s) == [num |-> s.den - s.num, den |-> s.den]

Menor(r, s) == r.num * s.den < s.num * r.den

(***************************************************************************)
(* The store as one value: w = [db, disk, index, indexDisk].               *)
(***************************************************************************)
TablasVacias ==
    [personas |-> <<>>, etiquetas |-> <<>>, rostros |-> <<>>,
     fotos |-> <<>>, fotos_etiquetas |-> {}]

Mundo == [db |-> db, disk |-> disk, index |-> index, indexDisk |-> indexDisk]

\* Mutant of commit: the commit is left out.
commit_olvidado(w) == w

\* self.conn.commit()
commit(w) == [w EXCEPT !.disk = w.db]

\* Mutant of rollback: the rollback is left out.
rollback_olvidado(w) == w

\* self.conn.rollback()
rollback(w) == [w EXCEPT !.db = w.disk]

\* Mutant of guardar_cambios_faiss: the index file is not written.
guardar_cambios_faiss_omitido(w) == w

\* faiss.write_index(self.index, self.faiss_path)
guardar_cambios_faiss(w) == [w EXCEPT !.indexDisk = w.index]

\* DatabaseManager.conectar after a restart: a new connection sees the
\* committed rows, and the index is read back from its file.
conectar(w) == [w EXCEPT !.db = w.disk, !.index = w.indexDisk]

\* DatabaseManager.conectar when the index file does not exist: the else
\* branch builds an empty IndexIDMap and nothing is raised or reported.  An
\* absent file is kept as the empty index, which is what every later
\* conectar makes of it until write_index creates the file.
conectar_sin_indice(w) == [w EXCEPT !.db = w.disk, !.index = {}, !.indexDisk = {}]

\* DatabaseManager.cerrar: conn.close(), which drops an open transaction,
\* then guardar_cambios_faiss.
cerrar(w) == guardar_cambios_faiss(rollback(w))

\* Mutant of IdDeTexto: no text is ever found (as without the UNIQUE
\* constraint on etiquetas.texto, every INSERT succeeds).
IdDeTexto_SinUnique(etiquetas, texto) == NULL

\* SELECT id FROM etiquetas WHERE texto = ? (texto is UNIQUE): the id, or NULL.
IdDeTexto(etiquetas, texto) ==
    LET ids == {i \in 1..Len(etiquetas) : etiquetas[i].texto = texto}
    IN  IF ids = {} THEN NULL ELSE CHOOSE i \in ids : TRUE

(***************************************************************************)
(* crear_o_recuperar_etiqueta: INSERT and commit; on the UNIQUE violation, *)
(* rollback of the whole open transaction and SELECT.                      *)
(***************************************************************************)
crear_o_recuperar_etiqueta(w, texto, tipo) ==
    IF IdDeTexto(w.db.etiquetas, texto) = NULL
    THEN LET w1 == [w EXCEPT !.db.etiquetas =
                        Append(@, [texto |-> texto, tipo |-> tipo])]
         IN  [w |-> commit(w1), ret |-> Len(w1.db.etiquetas)]
    ELSE LET w1 == rollback(w)
         IN  [w |-> w1, ret |-> IdDeTexto(w1.db.etiquetas, texto)]

\* f"Desconocido {nuevo_persona_id}" when no name came, else the name.
NombreFinal(nombre, persona_id) ==
    IF nombre = "" THEN "Desconocido " \o ToString(persona_id) ELSE nombre

\* UPDATE personas SET nombre = ?, etiqueta_id = ? WHERE id = ?
ActualizarPersona(w, persona_id, nombre, etiqueta_id) ==
    IF persona_id \in 1..Len(w.db.personas)
    THEN [w EXCEPT !.db.personas[persona_id] =
             [@ EXCEPT !.nombre = nombre, !.etiqueta_id = etiqueta_id]]
    ELSE w

\* self.index.add_with_ids(vector_np, id_faiss), the vector normalised.
add_with_ids(w, embedding, id) ==
    [w EXCEPT !.index = @ \cup {[id |-> id, vec |-> normalize_L2(embedding)]}]

(***************************************************************************)
(* registrar_nueva_persona.  The result is [pasos, ret]: pasos is the      *)
(* store after each statement of the handler, in order, and the last one   *)
(* is the store when the handler returns; ret is the value returned and    *)
(* error names the statement that raised ("" when none did).               *)
(* area_ok = FALSE is an area that is neither a dict with x, y, w, h nor a *)
(* list of four: the reads of lines 262-265 raise.                         *)
(***************************************************************************)
registrar_nueva_persona(w, foto_id, embedding, area_ok, nombre) ==
    LET nuevo_persona_id == Len(w.db.personas) + 1
        p1 == [w EXCEPT !.db.personas =
                  Append(@, [nombre |-> nombre, es_conocida |-> FALSE,
                             etiqueta_id |-> NULL])]
        nombre_final == NombreFinal(nombre, nuevo_persona_id)
        et == crear_o_recuperar_etiqueta(p1, nombre_final, "persona")
        p2 == et.w
        p3 == ActualizarPersona(p2, nuevo_persona_id, nombre_final, et.ret)
        nuevo_rostro_id == Len(p3.db.rostros) + 1
        p4 == [p3 EXCEPT !.db.rostros =
                  Append(@, [foto_id |-> foto_id,
                             persona_id |-> nuevo_persona_id,
                             embedding_blob |-> embedding])]
        p5 == commit(p4)
        p6 == add_with_ids(p5, embedding, nuevo_rostro_id)
        p7 == guardar_cambios_faiss(p6)
    IN  IF ~area_ok
        THEN [pasos |-> <<p1, p2, p3, rollback(p3)>>, ret |-> NULL,
              error |-> "area"]
        ELSE IF Len(embedding) # DIMENSION_EMBEDDING
        THEN [pasos |-> <<p1, p2, p3, p4, p5, rollback(p5)>>, ret |-> NULL,
              error |-> "faiss"]
        ELSE [pasos |-> <<p1, p2, p3, p4, p5, p6, p7>>,
              ret |-> nuevo_persona_id, error |-> ""]

Ultimo(s) == s[Len(s)]

(***************************************************************************)
(* guardar_rostros_detectados: one INSERT per detection (persona_id and    *)
(* embedding_blob stay NULL), commit, then the batch into FAISS and the    *)
(* index file.  lista is the sequence of the detections' embeddings.  The  *)
(* handler has no except clause: np.array(...).astype('float32') raises on *)
(* rows of different lengths and add_with_ids on a wrong dimension, both   *)
(* after the commit.  Result [pasos, ret, raised].                         *)
(***************************************************************************)
RECURSIVE InsertarRostros(_, _, _)
InsertarRostros(rostros, foto_id, n) ==
    IF n = 0 THEN rostros
    ELSE Append(InsertarRostros(rostros, foto_id, n - 1),
                [foto_id |-> foto_id, persona_id |-> NULL,
                 embedding_blob |-> NULL_BLOB])

guardar_rostros_detectados(w, foto_id, lista) ==
    LET base == Len(w.db.rostros)
        ids_generados == [i \in 1..Len(lista) |-> base + i]
        g1 == [w EXCEPT !.db.rostros = InsertarRostros(@, foto_id, Len(lista))]
        g2 == commit(g1)
        g3 == [g2 EXCEPT !.index = @ \cup
                  {[id |-> ids_generados[i], vec |-> normalize_L2(lista[i])] :
                      i \in 1..Len(lista)}]
        g4 == guardar_cambios_faiss(g3)
    IN  IF lista = <<>>
        THEN [pasos |-> <<g1, g2>>, ret |-> ids_generados, raised |-> FALSE]
        ELSE IF \E i \in 1..Len(lista) : Len(lista[i]) # DIMENSION_EMBEDDING
        THEN [pasos |-> <<g1, g2>>, ret |-> <<>>, raised |-> TRUE]
        ELSE [pasos |-> <<g1, g2, g3, g4>>, ret |-> ids_generados,
              raised |-> FALSE]

(***************************************************************************)
(* self.index.search(vector_np, k=1) on IndexFlatIP: the entry of largest  *)
(* inner product with the normalised query.  Among entries of equal score  *)
(* the one returned is the index's choice: every one of them is a possible *)
(* result.  Each result is [id, sim]; an empty index gives the sentinel.   *)
(***************************************************************************)
search(idx, embedding) ==
    LET q == normalize_L2(embedding)
        s(e) == Similitud(e.vec, q)
    IN  IF idx = {}
        THEN {[id |-> NO_ENCONTRADO, sim |-> [num |-> -1000, den |-> 1]]}
        ELSE {[id |-> e.id, sim |-> s(e)] :
                 e \in {e \in idx : \A f \in idx : ~Menor(s(e), s(f))}}

\* SELECT persona_id FROM rostros_detectados WHERE id = ?, and the test
\* "resultado and resultado['persona_id']": the person, or NULL.
PersonaDeRostro(tablas, id_rostro) ==
    IF id_rostro \in 1..Len(tablas.rostros)
    THEN tablas.rostros[id_rostro].persona_id
    ELSE NULL

\* Mutant of BajoUmbral: the similarity, not the distance, is compared with
\* the threshold (mejor_similitud < umbral).
BajoUmbral_Similitud(distancia, umbral) == Menor(Distancia(distancia), umbral)

\* Mutant of BajoUmbral: distancia <= umbral.
BajoUmbral_Inclusivo(distancia, umbral) == ~Menor(umbral, distancia)

\* The comparison of line 178: distancia < umbral.
BajoUmbral(distancia, umbral) == Menor(distancia, umbral)

(***************************************************************************)
(* identificar_persona_por_vector: the set of its possible outcomes        *)
(* [persona, rostro, distancia, raised], one per result of search.  A      *)
(* query of the wrong length on a non-empty index fails the dimension      *)
(* assertion of search.                                                    *)
(***************************************************************************)
identificar_persona_por_vector(w, embedding, umbral) ==
    IF w.index = {}
    THEN {[persona |-> NULL, rostro |-> NO_ENCONTRADO,
           distancia |-> [num |-> 1, den |-> 1], raised |-> FALSE]}
    ELSE IF Len(embedding) # DIMENSION_EMBEDDING
    THEN {[persona |-> NULL, rostro |-> NO_ENCONTRADO,
           distancia |-> [num |-> 1, den |-> 1], raised |-> TRUE]}
    ELSE {[persona |-> IF BajoUmbral(Distancia(r.sim), umbral)
                          /\ r.id # NO_ENCONTRADO
                       THEN PersonaDeRostro(w.db, r.id)
                       ELSE NULL,
           rostro |-> r.id,
           distancia |-> Distancia(r.sim),
           raised |-> FALSE] : r \in search(w.index, embedding)}

(***************************************************************************)
(* renombrar_persona: UPDATE personas, then UPDATE etiquetas of the tag    *)
(* whose text is the OLD NAME (tipo 'persona'); the UNIQUE violation of    *)
(* the second UPDATE rolls both back.  Result [w, ret].                    *)
(***************************************************************************)
renombrar_persona(w, persona_id, nuevo_nombre) ==
    IF persona_id \notin 1..Len(w.db.personas)
    THEN [w |-> w, ret |-> FALSE]
    ELSE
    LET nombre_antiguo == w.db.personas[persona_id].nombre
        r1 == [w EXCEPT !.db.personas[persona_id] =
                  [@ EXCEPT !.nombre = nuevo_nombre, !.es_conocida = TRUE]]
        etq == r1.db.etiquetas
        tocadas == {i \in 1..Len(etq) :
                       etq[i].texto = nombre_antiguo /\ etq[i].tipo = "persona"}
        choque == \E i \in tocadas : \E j \in 1..Len(etq) :
                       j # i /\ etq[j].texto = nuevo_nombre
        r2 == [r1 EXCEPT !.db.etiquetas =
                  [i \in 1..Len(etq) |->
                      IF i \in tocadas
                      THEN [etq[i] EXCEPT !.texto = nuevo_nombre]
                      ELSE etq[i]]]
    IN  IF choque
        THEN [w |-> rollback(r1), ret |-> FALSE]
        ELSE [w |-> commit(r2), ret |-> TRUE]

\* obtener_etiqueta_id_de_persona: the person's etiqueta_id, or None.
obtener_etiqueta_id_de_persona(w, persona_id) ==
    IF persona_id \in 1..Len(w.db.personas)
    THEN w.db.personas[persona_id].etiqueta_id
    ELSE NULL

(***************************************************************************)
(* registrar_foto: INSERT and commit; on the IntegrityError (ruta_archivo   *)
(* UNIQUE, or hash_md5 UNIQUE, which a NULL hash never violates) the       *)
(* SELECT by hash_md5 and fetchone()['id'], which raises TypeError when    *)
(* no row has that hash (hash_md5 = NULL matches no row).  The metadata    *)
(* columns take no part in any decision.  Result [w, ret, raised].         *)
(***************************************************************************)
IdDeHash(fotos, hash) ==
    LET ids == {i \in 1..Len(fotos) : hash # NULL /\ fotos[i].hash_md5 = hash}
    IN  IF ids = {} THEN NULL ELSE CHOOSE i \in ids : TRUE

ConflictoFoto(fotos, ruta, hash) ==
    \E i \in 1..Len(fotos) :
        fotos[i].ruta_archivo = ruta \/ (hash # NULL /\ fotos[i].hash_md5 = hash)

registrar_foto(w, ruta, hash) ==
    IF ~ConflictoFoto(w.db.fotos, ruta, hash)
    THEN LET w1 == [w EXCEPT !.db.fotos =
                        Append(@, [ruta_archivo |-> ruta, hash_md5 |-> hash,
                                   procesada_facial |-> FALSE])]
         IN  [w |-> commit(w1), ret |-> Len(w1.db.fotos), raised |-> FALSE]
    ELSE [w |-> w, ret |-> IdDeHash(w.db.fotos, hash),
          raised |-> IdDeHash(w.db.fotos, hash) = NULL]

\* Mutant of InsertOrIgnore: INSERT OR REPLACE.
InsertOrReplace(enlaces, foto_id, etiqueta_id, manual) ==
    {e \in enlaces : ~(e.foto_id = foto_id /\ e.etiqueta_id = etiqueta_id)}
        \cup {[foto_id |-> foto_id, etiqueta_id |-> etiqueta_id,
               asignacion_manual |-> manual]}

\* INSERT OR IGNORE INTO fotos_etiquetas, PRIMARY KEY (foto_id, etiqueta_id).
InsertOrIgnore(enlaces, foto_id, etiqueta_id, manual) ==
    IF \E e \in enlaces : e.foto_id = foto_id /\ e.etiqueta_id = etiqueta_id
    THEN enlaces
    ELSE enlaces \cup {[foto_id |-> foto_id, etiqueta_id |-> etiqueta_id,
                        asignacion_manual |-> manual]}

\* asignar_etiqueta: INSERT OR IGNORE, commit, True.  Foreign keys are not
\* enforced on this connection, so no id makes the INSERT fail.
asignar_etiqueta(w, foto_id, etiqueta_id, manual) ==
    [w |-> commit([w EXCEPT !.db.fotos_etiquetas =
                      InsertOrIgnore(@, foto_id, etiqueta_id, manual)]),
     ret |-> TRUE]

\* Mutant of obtener_ruta_foto: the row is subscripted without the test
\* "if resultado".
obtener_ruta_foto_sin_prueba(w, foto_id) ==
    IF foto_id \in 1..Len(w.db.fotos)
    THEN [ret |-> w.db.fotos[foto_id].ruta_archivo, raised |-> FALSE]
    ELSE [ret |-> SIN_RUTA, raised |-> TRUE]

\* obtener_ruta_foto: the photo's ruta_archivo, or None.  Result
\* [ret, raised].
obtener_ruta_foto(w, foto_id) ==
    IF foto_id \in 1..Len(w.db.fotos)
    THEN [ret |-> w.db.fotos[foto_id].ruta_archivo, raised |-> FALSE]
    ELSE [ret |-> SIN_RUTA, raised |-> FALSE]

\* marcar_foto_como_procesada: UPDATE fotos SET procesada_facial = 1 WHERE
\* id = ?, commit, True.
marcar_foto_como_procesada(w, foto_id) ==
    [w |-> commit(IF foto_id \in 1..Len(w.db.fotos)
                  THEN [w EXCEPT !.db.fotos[foto_id].procesada_facial = TRUE]
                  ELSE w),
     ret |-> TRUE]

\* How a call of registrar_nueva_persona ended.
EstadoRegistro(r) ==
    IF r.ret # NULL THEN "CREATED"
    ELSE IF r.error = "faiss" THEN "FAILED_FAISS" ELSE "FAILED"

(***************************************************************************)
(* ProcesadorDeFotos.  A face (cara) is given by its embedding; its        *)
(* facial_area is well formed.                                             *)
(***************************************************************************)
\* Mutant of Turno: registrar_nueva_persona is called whether or not the
\* face was identified (the else of line 84 is missing).
Turno_SiempreRegistra(w, cara) ==
    {LET r == registrar_nueva_persona(w, FOTO_PROCESADOR, cara, TRUE,
                                      "Desconocido")
     IN  IF i.raised
         THEN [w |-> w, id |-> NULL, estado |-> "RAISED"]
         ELSE IF i.persona # NULL
         THEN [w |-> Ultimo(r.pasos), id |-> i.persona, estado |-> "MATCHED"]
         ELSE [w |-> Ultimo(r.pasos), id |-> r.ret,
               estado |-> EstadoRegistro(r)] :
        i \in identificar_persona_por_vector(w, cara, UMBRAL_DEFECTO)}

\* One turn of the loop of procesando_caras (lines 76-93): the possible
\* [w, id, estado], id being what is appended to ids_encontrados (None
\* when registrar_nueva_persona failed).  An exception of identificar
\* leaves the method.
Turno(w, cara) ==
    {IF i.raised
     THEN [w |-> w, id |-> NULL, estado |-> "RAISED"]
     ELSE IF i.persona # NULL
     THEN [w |-> w, id |-> i.persona, estado |-> "MATCHED"]
     ELSE LET r == registrar_nueva_persona(w, FOTO_PROCESADOR, cara, TRUE,
                                           "Desconocido")
          IN  [w |-> Ultimo(r.pasos), id |-> r.ret,
               estado |-> EstadoRegistro(r)] :
        i \in identificar_persona_por_vector(w, cara, UMBRAL_DEFECTO)}

\* procesando_caras: the loop over caras; the possible [w, ids, estados],
\* ids being ids_encontrados and estados how each turn ended.
RECURSIVE procesando_caras(_, _)
procesando_caras(w, caras) ==
    IF caras = <<>>
    THEN {[w |-> w, ids |-> <<>>, estados |-> <<>>]}
    ELSE UNION {IF "RAISED" \in {a.estados[k] : k \in DOMAIN a.estados}
                THEN {a}
                ELSE {[w |-> t.w,
                       ids |-> IF t.estado = "RAISED" THEN a.ids
                               ELSE Append(a.ids, t.id),
                       estados |-> Append(a.estados, t.estado)] :
                         t \in Turno(a.w, caras[Len(caras)])} :
                 a \in procesando_caras(w, SubSeq(caras, 1, Len(caras) - 1))}

\* How a call of procesando_caras ended: RAISED, NONE for no face, MATCHED
\* when every face was identified, else NEW (registrar_nueva_persona was
\* called for a face).
Resumen(estados) ==
    LET E == {estados[k] : k \in DOMAIN estados}
    IN  IF "RAISED" \in E THEN "RAISED"
        ELSE IF E = {} THEN "NONE"
        ELSE IF E = {"MATCHED"} THEN "MATCHED" ELSE "NEW"

\* anadir_etiquetas (written with n-tilde in the source): nothing for an
\* empty list; else, for each person id,
\* obtener_etiqueta_id_de_persona, and for the first one that has a tag the
\* arguments of asignar_etiqueta are evaluated: self.foto_id_actual is an
\* attribute no code sets, so AttributeError is raised before the call.
\* Result [w, raised].
anadir_etiquetas(w, ids_encontrados) ==
    [w |-> w,
     raised |-> \E k \in 1..Len(ids_encontrados) :
                   obtener_etiqueta_id_de_persona(w, ids_encontrados[k]) # NULL]

\* procesar_foto: line 131 calls self.obtener_caras() without its required
\* argument ruta_foto_nueva: TypeError is raised before any other statement
\* runs.  Result [w, raised].
procesar_foto(w, id_foto) == [w |-> w, raised |-> TRUE]

(***************************************************************************)
(* State machine.  last records the operation that produced the state: its *)
(* name, the inputs the properties read, and its result.  creados is the   *)
(* set of person ids that registrar_nueva_persona has returned.            *)
(* ultimoCreado is the id of the face row written by the latest turn of    *)
(* the loop of procesando_caras when that turn ended with a new person     *)
(* (its embedding and person are in that row), and NULL otherwise; last    *)
(* keeps in previo the value it had before a turn, and a crash, which cuts *)
(* the loop short, resets it.  completas is TRUE                           *)
(* until an index insert is lost: to a crash, or to an exception raised by *)
(* the FAISS step of a handler after its commit.  hilos is, for each       *)
(* thread, its place in the per-face sequence of procesando_caras (pc),    *)
(* its embedding, how its resolution ended and the person id it got;       *)
(* fresco says that no indexed face was within the threshold of the        *)
(* embedding when the sequence started.                                    *)
(***************************************************************************)
Op(op, emb, arg, nombre, umbral, ret, ids, estado, rostro, previo) ==
    [op |-> op, emb |-> emb, arg |-> arg, nombre |-> nombre,
     umbral |-> umbral, ret |-> ret, ids |-> ids, estado |-> estado,
     rostro |-> rostro, previo |-> previo]

\* The threads that share the DatabaseManager, and a thread that is not
\* in a resolution.
Hilos == {1, 2}

HiloLibre ==
    [pc |-> "libre", emb |-> <<>>, estado |-> "NONE", ret |-> NULL,
     fresco |-> FALSE]

Init ==
    /\ db = TablasVacias
    /\ disk = TablasVacias
    /\ index = {}
    /\ indexDisk = {}
    /\ last = Op("init", <<>>, NULL, "", UMBRAL_DEFECTO, NULL, <<>>, "NONE",
                 NULL, NULL)
    /\ creados = {}
    /\ ultimoCreado = NULL
    /\ completas = TRUE
    /\ hilos = [t \in Hilos |-> HiloLibre]

Poner(w) ==
    /\ db' = w.db
    /\ disk' = w.disk
    /\ index' = w.index
    /\ indexDisk' = w.indexDisk

HaySitio == Len(db.personas) < MaxPersonas /\ Len(db.rostros) < MaxRostros

Lotes == UNION {[1..n -> EmbeddingsEntrada] : n \in 0..MaxLote}

\* A direct call of identificar_persona_por_vector.
Identificar(e, u) ==
    \E r \in identificar_persona_por_vector(Mundo, e, u) :
        /\ last' = Op("identificar", e, NULL, "", u, r.persona, <<>>,
                      IF r.raised THEN "RAISED"
                      ELSE IF r.persona # NULL THEN "MATCHED" ELSE "MISS",
                      r.rostro, NULL)
        /\ UNCHANGED <<db, disk, index, indexDisk, creados, ultimoCreado,
                       completas, hilos>>

\* A direct call of registrar_nueva_persona.
Registrar(f, e, a, n) ==
    /\ HaySitio
    /\ LET r == registrar_nueva_persona(Mundo, f, e, a, n)
           w == Ultimo(r.pasos)
       IN  /\ Poner(w)
           /\ last' = Op("registrar", e, f, n, UMBRAL_DEFECTO, r.ret, <<>>,
                         EstadoRegistro(r),
                         IF r.ret # NULL THEN Len(w.db.rostros) ELSE NULL, NULL)
           /\ creados' = IF r.ret # NULL THEN creados \cup {r.ret} ELSE creados
           /\ completas' = (completas /\ r.error # "faiss")
           /\ UNCHANGED <<ultimoCreado, hilos>>

\* One turn of the loop of procesando_caras: identificar, and on a miss
\* registrar_nueva_persona(foto_id=15, ..., nombre="Desconocido").
Resolver(e, a) ==
    \E i \in identificar_persona_por_vector(Mundo, e, UMBRAL_DEFECTO) :
        IF i.raised
        THEN /\ last' = Op("resolver", e, NULL, "", UMBRAL_DEFECTO, NULL,
                           <<>>, "RAISED", NULL, ultimoCreado)
             /\ ultimoCreado' = NULL
             /\ UNCHANGED <<db, disk, index, indexDisk, creados, completas,
                            hilos>>
        ELSE IF i.persona # NULL
        THEN /\ last' = Op("resolver", e, NULL, "", UMBRAL_DEFECTO,
                           i.persona, <<>>, "MATCHED", i.rostro, ultimoCreado)
             /\ ultimoCreado' = NULL
             /\ UNCHANGED <<db, disk, index, indexDisk, creados, completas,
                            hilos>>
        ELSE /\ HaySitio
             /\ LET r == registrar_nueva_persona(Mundo, FOTO_PROCESADOR, e, a,
                                                 "Desconocido")
                    w == Ultimo(r.pasos)
                    rostro == IF r.ret # NULL THEN Len(w.db.rostros) ELSE NULL
                IN  /\ Poner(w)
                    /\ last' = Op("resolver", e, FOTO_PROCESADOR,
                                  "Desconocido", UMBRAL_DEFECTO, r.ret, <<>>,
                                  EstadoRegistro(r), rostro, ultimoCreado)
                    /\ ultimoCreado' = rostro
                    /\ completas' = (completas /\ r.error # "faiss")
                    /\ creados' = IF r.ret # NULL THEN creados \cup {r.ret}
                                  ELSE creados
                    /\ UNCHANGED hilos

\* A call of guardar_rostros_detectados.
Guardar(f, lista) ==
    /\ Len(db.rostros) + Len(lista) <= MaxRostros
    /\ LET r == guardar_rostros_detectados(Mundo, f, lista)
       IN  /\ Poner(Ultimo(r.pasos))
           /\ last' = Op("guardar", <<>>, f, "", UMBRAL_DEFECTO, NULL,
                         r.ret, IF r.raised THEN "RAISED" ELSE "OK", NULL, NULL)
           /\ completas' = (completas /\ ~r.raised)
           /\ UNCHANGED <<creados, ultimoCreado, hilos>>

\* A call of renombrar_persona.
Renombrar(p, n) ==
    LET r == renombrar_persona(Mundo, p, n)
    IN  /\ Poner(r.w)
        /\ last' = Op("renombrar", <<>>, p, n, UMBRAL_DEFECTO,
                      IF r.ret THEN 1 ELSE 0, <<>>,
                      IF r.ret THEN "OK" ELSE "FAILED", NULL, NULL)
        /\ UNCHANGED <<creados, ultimoCreado, completas, hilos>>

\* A call of registrar_foto.
RegistrarFoto(ruta, hash) ==
    LET r == registrar_foto(Mundo, ruta, hash)
    IN  /\ Poner(r.w)
        /\ last' = Op("foto", <<>>, hash, ruta, UMBRAL_DEFECTO, r.ret, <<>>,
                      IF r.raised THEN "RAISED" ELSE "OK", NULL, NULL)
        /\ UNCHANGED <<creados, ultimoCreado, completas, hilos>>

\* A call of crear_o_recuperar_etiqueta.
CrearEtiqueta(texto, tipo) ==
    /\ Len(db.etiquetas) < MaxEtiquetas
    /\ LET r == crear_o_recuperar_etiqueta(Mundo, texto, tipo)
       IN  /\ Poner(r.w)
           /\ last' = Op("etiqueta", <<>>, NULL, texto, UMBRAL_DEFECTO, r.ret,
                         <<>>, "OK", NULL, NULL)
           /\ UNCHANGED <<creados, ultimoCreado, completas, hilos>>

\* A call of asignar_etiqueta; ids keeps the parameters of the INSERT.
AsignarEtiqueta(f, t, manual) ==
    LET r == asignar_etiqueta(Mundo, f, t, manual)
    IN  /\ Poner(r.w)
        /\ last' = Op("enlace", <<>>, NULL, "", UMBRAL_DEFECTO,
                      IF r.ret THEN 1 ELSE 0,
                      <<f, t, IF manual THEN 1 ELSE 0>>, "OK", NULL, NULL)
        /\ UNCHANGED <<creados, ultimoCreado, completas, hilos>>

\* A call of cerrar; the manager is constructed anew (conectar) before its
\* next use.
Cerrar ==
    /\ Poner(conectar(cerrar(Mundo)))
    /\ last' = Op("cerrar", <<>>, NULL, "", UMBRAL_DEFECTO, NULL, <<>>, "OK",
                  NULL, NULL)
    /\ ultimoCreado' = NULL
    /\ UNCHANGED <<creados, completas, hilos>>

\* The process is stopped, the index file is missing from the deployment
\* while the database file is there, and DatabaseManager() is constructed.
\* conectar returns normally.
ArranqueSinIndice ==
    /\ Poner(conectar_sin_indice(Mundo))
    /\ last' = Op("arranque", <<>>, NULL, "", UMBRAL_DEFECTO, NULL, <<>>, "OK",
                  NULL, NULL)
    /\ ultimoCreado' = NULL
    /\ completas' = FALSE
    /\ UNCHANGED <<creados, hilos>>

(***************************************************************************)
(* Two threads run the per-face sequence on the shared DatabaseManager     *)
(* (check_same_thread=False; no lock in DatabaseManager or in              *)
(* procesando_caras).  A step is one call of the manager: the scheduler    *)
(* may run a call of the other thread between identificar and registrar.   *)
(***************************************************************************)
\* The entry vec of the index is within the default threshold of embedding e.
Cerca2(vec, e) ==
    Menor(Distancia(Similitud(vec, normalize_L2(e))), UMBRAL_DEFECTO)

SinVecino(e) == \A f \in index : ~Cerca2(f.vec, e)

\* Both threads start the sequence, each for its own face.
Lanzar(e1, e2) ==
    /\ \A t \in Hilos : hilos[t].pc \in {"libre", "fin"}
    /\ hilos' = [t \in Hilos |->
                    [pc |-> "inicio", emb |-> IF t = 1 THEN e1 ELSE e2,
                     estado |-> "NONE", ret |-> NULL,
                     fresco |-> SinVecino(IF t = 1 THEN e1 ELSE e2)]]
    /\ UNCHANGED <<db, disk, index, indexDisk, last, creados, ultimoCreado,
                   completas>>

\* id_persona, distancia = self.db.identificar_persona_por_vector(embedding)
HiloIdentificar(t) ==
    /\ hilos[t].pc = "inicio"
    /\ \E i \in identificar_persona_por_vector(Mundo, hilos[t].emb,
                                                UMBRAL_DEFECTO) :
          hilos' = [hilos EXCEPT ![t] =
                       IF i.persona # NULL
                       THEN [@ EXCEPT !.pc = "fin", !.estado = "MATCHED",
                                      !.ret = i.persona]
                       ELSE [@ EXCEPT !.pc = "miss"]]
    /\ UNCHANGED <<db, disk, index, indexDisk, last, creados, ultimoCreado,
                   completas>>

\* nuevo_id = self.db.registrar_nueva_persona(foto_id=15, ...)
HiloRegistrar(t) ==
    /\ hilos[t].pc = "miss"
    /\ HaySitio
    /\ LET r == registrar_nueva_persona(Mundo, FOTO_PROCESADOR, hilos[t].emb,
                                        TRUE, "Desconocido")
       IN  /\ Poner(Ultimo(r.pasos))
           /\ hilos' = [hilos EXCEPT ![t] =
                           [@ EXCEPT !.pc = "fin", !.estado = EstadoRegistro(r),
                                     !.ret = r.ret]]
           /\ creados' = IF r.ret # NULL THEN creados \cup {r.ret} ELSE creados
           /\ UNCHANGED <<last, ultimoCreado, completas>>

Caida ==
    Op("caida", <<>>, NULL, "", UMBRAL_DEFECTO, NULL, <<>>, "CRASH", NULL, NULL)

\* The process dies after statement k of registrar_nueva_persona and is
\* started again (conectar).
CaidaRegistrar(f, e, a, n) ==
    /\ HaySitio
    /\ LET r == registrar_nueva_persona(Mundo, f, e, a, n)
       IN  \E k \in 1..Len(r.pasos) :
               /\ Poner(conectar(r.pasos[k]))
               /\ last' = Caida
               /\ completas' = FALSE
               /\ ultimoCreado' = NULL
               /\ UNCHANGED <<creados, hilos>>

\* The process dies after statement k of guardar_rostros_detectados and is
\* started again.
CaidaGuardar(f, lista) ==
    /\ Len(db.rostros) + Len(lista) <= MaxRostros
    /\ LET r == guardar_rostros_detectados(Mundo, f, lista)
       IN  \E k \in 1..Len(r.pasos) :
               /\ Poner(conectar(r.pasos[k]))
               /\ last' = Caida
               /\ completas' = FALSE
               /\ ultimoCreado' = NULL
               /\ UNCHANGED <<creados, hilos>>

\* The lists of faces obtener_caras hands to procesando_caras, and the
\* photo ids a ProcesadorDeFotos is constructed with.
Caras == UNION {[1..n -> Embeddings] : n \in 0..MaxLote}
IdsFoto == 1..(Cardinality(Rutas) + 1)

\* ProcesadorDeFotos(P) can be constructed: __init__ raises ValueError
\* unless obtener_ruta_foto finds the row (the file is assumed to exist).
Construible(P) == obtener_ruta_foto(Mundo, P).ret # SIN_RUTA

\* ProcesadorDeFotos(P).procesando_caras(caras); arg keeps P, ids the
\* returned list, previo the number of face rows before the call.
ProcesandoCaras(P, caras) ==
    /\ Construible(P)
    /\ \E r \in procesando_caras(Mundo, caras) :
          /\ Len(r.w.db.personas) <= MaxPersonas
          /\ Len(r.w.db.rostros) <= MaxRostros
          /\ Len(r.w.db.etiquetas) <= MaxEtiquetas
          /\ Poner(r.w)
          /\ last' = Op("procesando", <<>>, P, "", UMBRAL_DEFECTO, NULL,
                        r.ids, Resumen(r.estados), NULL, Len(db.rostros))
          /\ creados' = creados \cup
                {r.ids[k] : k \in {j \in DOMAIN r.ids :
                                     r.estados[j] = "CREATED"}}
          /\ completas' = (completas /\ \A k \in DOMAIN r.estados :
                                           r.estados[k] # "FAILED_FAISS")
          /\ UNCHANGED <<ultimoCreado, hilos>>

\* ProcesadorDeFotos(P).anadir_etiquetas(ids) with the list the preceding
\* procesando_caras returned.
AnadirEtiquetas ==
    /\ last.op = "procesando" /\ last.estado # "RAISED"
    /\ LET r == anadir_etiquetas(Mundo, last.ids)
       IN  /\ Poner(r.w)
           /\ last' = Op("etiquetar", <<>>, last.arg, "", UMBRAL_DEFECTO,
                         NULL, last.ids,
                         IF r.raised THEN "RAISED" ELSE "OK", NULL, NULL)
           /\ UNCHANGED <<creados, ultimoCreado, completas, hilos>>

\* ProcesadorDeFotos(P).procesar_foto(ruta).
ProcesarFoto(P) ==
    /\ Construible(P)
    /\ LET r == procesar_foto(Mundo, P)
       IN  /\ Poner(r.w)
           /\ last' = Op("procesar_foto", <<>>, P, "", UMBRAL_DEFECTO, NULL,
                         <<>>, IF r.raised THEN "RAISED" ELSE "OK", NULL,
                         NULL)
           /\ UNCHANGED <<creados, ultimoCreado, completas, hilos>>

\* A direct call of marcar_foto_como_procesada.
MarcarProcesada(P) ==
    LET r == marcar_foto_como_procesada(Mundo, P)
    IN  /\ Poner(r.w)
        /\ last' = Op("marcar", <<>>, P, "", UMBRAL_DEFECTO,
                      IF r.ret THEN 1 ELSE 0, <<>>, "OK", NULL, NULL)
        /\ UNCHANGED <<creados, ultimoCreado, completas, hilos>>

\* A call of obtener_ruta_foto; nombre keeps the returned path.
ObtenerRuta(P) ==
    LET r == obtener_ruta_foto(Mundo, P)
    IN  /\ last' = Op("ruta", <<>>, P, r.ret, UMBRAL_DEFECTO, NULL, <<>>,
                      IF r.raised THEN "RAISED" ELSE "OK", NULL, NULL)
        /\ UNCHANGED <<db, disk, index, indexDisk, creados, ultimoCreado,
                       completas, hilos>>

\* A call of obtener_etiqueta_id_de_persona.
ObtenerEtiqueta(p) ==
    /\ last' = Op("etiqueta_de", <<>>, p, "", UMBRAL_DEFECTO,
                  obtener_etiqueta_id_de_persona(Mundo, p), <<>>, "OK", NULL,
                  NULL)
    /\ UNCHANGED <<db, disk, index, indexDisk, creados, ultimoCreado,
                   completas, hilos>>

(***************************************************************************)
(* Specifications.  Spec is the face pipeline: the resolution loop, the    *)
(* batch insert and the query.  SpecCaidas is the two writers of the index *)
(* with a crash inside either of them.  SpecNombres is the naming side:    *)
(* registrar_nueva_persona with the names a caller passes, and             *)
(* renombrar_persona.  SpecFotos is the import and tagging side:           *)
(* registrar_foto, crear_o_recuperar_etiqueta and asignar_etiqueta.        *)
(* SpecCierre is the three operations that write the index file: the loop, *)
(* the batch insert and cerrar.  SpecArranque is the loop with start-ups   *)
(* of a deployment whose index file is missing.  SpecHilos is two threads  *)
(* running the loop's per-face sequence on one manager.  SpecProcesador is *)
(* ProcesadorDeFotos on the photos registrar_foto has stored.              *)
(* SpecConsultas is the naming side with the two look-ups by id.           *)
(***************************************************************************)
Next ==
    \/ \E e \in EmbeddingsEntrada, u \in Umbrales : Identificar(e, u)
    \/ \E e \in EmbeddingsEntrada, a \in BOOLEAN : Resolver(e, a)
    \/ \E f \in FotoIds, lista \in Lotes : Guardar(f, lista)

Spec == Init /\ [][Next]_vars

NextCaidas ==
    \/ \E e \in EmbeddingsEntrada, a \in BOOLEAN : Resolver(e, a)
    \/ \E f \in FotoIds, lista \in Lotes : Guardar(f, lista)
    \/ \E e \in EmbeddingsEntrada, a \in BOOLEAN :
          CaidaRegistrar(FOTO_PROCESADOR, e, a, "Desconocido")
    \/ \E f \in FotoIds, lista \in Lotes : CaidaGuardar(f, lista)

SpecCaidas == Init /\ [][NextCaidas]_vars

NextNombres ==
    \/ \E f \in FotoIds, a \in BOOLEAN, n \in NombresRegistro :
          Registrar(f, <<5, 0>>, a, n)
    \/ \E p \in 1..(MaxPersonas + 1), n \in NombresRenombrar : Renombrar(p, n)

SpecNombres == Init /\ [][NextNombres]_vars

NextCierre ==
    \/ \E e \in EmbeddingsEntrada, a \in BOOLEAN : Resolver(e, a)
    \/ \E f \in FotoIds, lista \in Lotes : Guardar(f, lista)
    \/ Cerrar

SpecCierre == Init /\ [][NextCierre]_vars

NextArranque ==
    \/ \E e \in Embeddings : Resolver(e, TRUE)
    \/ ArranqueSinIndice

SpecArranque == Init /\ [][NextArranque]_vars

NextHilos ==
    \/ \E e1, e2 \in Embeddings : Lanzar(e1, e2)
    \/ \E t \in Hilos : HiloIdentificar(t)
    \/ \E t \in Hilos : HiloRegistrar(t)

SpecHilos == Init /\ [][NextHilos]_vars

NextFotos ==
    \/ \E ruta \in Rutas, hash \in Hashes : RegistrarFoto(ruta, hash)
    \/ \E texto \in Textos, tipo \in Tipos : CrearEtiqueta(texto, tipo)
    \/ \E f \in FotosEnlace, t \in EtiquetasEnlace, manual \in BOOLEAN :
          AsignarEtiqueta(f, t, manual)

SpecFotos == Init /\ [][NextFotos]_vars

NextProcesador ==
    \/ \E ruta \in Rutas : RegistrarFoto(ruta, NULL)
    \/ \E e \in Embeddings : Identificar(e, UMBRAL_DEFECTO)
    \/ \E P \in IdsFoto, caras \in Caras : ProcesandoCaras(P, caras)
    \/ AnadirEtiquetas
    \/ \E P \in IdsFoto : ProcesarFoto(P)
    \/ \E P \in IdsFoto : MarcarProcesada(P)

SpecProcesador == Init /\ [][NextProcesador]_vars

NextConsultas ==
    \/ \E f \in FotoIds, a \in BOOLEAN, n \in NombresRegistro :
          Registrar(f, <<5, 0>>, a, n)
    \/ \E p \in 1..(MaxPersonas + 1), n \in NombresRenombrar : Renombrar(p, n)
    \/ \E ruta \in Rutas : RegistrarFoto(ruta, NULL)
    \/ \E P \in IdsFoto : ObtenerRuta(P)
    \/ \E p \in 1..(MaxPersonas + 1) : ObtenerEtiqueta(p)

SpecConsultas == Init /\ [][NextConsultas]_vars

(***************************************************************************)
(* Vocabulary of the properties.                                           *)
(***************************************************************************)
\* Cosine distance of two raw embeddings below the default threshold.
Cerca(e1, e2) ==
    Menor(Distancia(Similitud(normalize_L2(e1), normalize_L2(e2))),
          UMBRAL_DEFECTO)

Ids(idx) == {e.id : e \in idx}

EsRegistro(o) == o.op \in {"resolver", "registrar"}

\* A turn of the loop that reached one of the two terminal states of a
\* resolution.
TurnoTerminado(o) == o.op = "resolver" /\ o.estado \in {"MATCHED", "CREATED"}

\* f is at least as near to the query e as g is.
AlMenosTanCerca(f, g, e) ==
    ~Menor(Similitud(f.vec, normalize_L2(e)), Similitud(g.vec, normalize_L2(e)))

(***************************************************************************)
(* C1 as stated: once a turn has ended CREATED with person p for embedding *)
(* e, the next turn for an embedding within the threshold of e ends        *)
(* MATCHED with p and adds no row, whatever else the index holds.          *)
(***************************************************************************)
C1_Original ==
    [][(/\ ultimoCreado # NULL
        /\ TurnoTerminado(last')
        /\ Cerca(last'.emb, db.rostros[ultimoCreado].embedding_blob))
       => (/\ last'.estado = "MATCHED"
           /\ last'.ret = db.rostros[ultimoCreado].persona_id
           /\ db' = db)]_vars

(***************************************************************************)
(* C1 as amended: the same, provided every indexed face that is at least   *)
(* as near to the query as the face written for p carries person p (no     *)
(* face of another person, and no face with a null person_id, is as near). *)
(***************************************************************************)
C1_Amended ==
    [][(/\ ultimoCreado # NULL
        /\ TurnoTerminado(last')
        /\ Cerca(last'.emb, db.rostros[ultimoCreado].embedding_blob)
        /\ \E g \in index :
              /\ g.id = ultimoCreado
              /\ \A f \in index :
                    AlMenosTanCerca(f, g, last'.emb)
                    => db.rostros[f.id].persona_id
                         = db.rostros[ultimoCreado].persona_id)
       => (/\ last'.estado = "MATCHED"
           /\ last'.ret = db.rostros[ultimoCreado].persona_id
           /\ db' = db /\ disk' = disk
           /\ index' = index /\ indexDisk' = indexDisk)]_vars

\* C1 witness: a turn matched the person created by the turn before it, for
\* a different embedding, while the index also held a face with no person.
C1_Witness ==
    /\ last.op = "resolver"
    /\ last.previo # NULL
    /\ last.estado = "MATCHED"
    /\ last.ret = db.rostros[last.previo].persona_id
    /\ last.emb # db.rostros[last.previo].embedding_blob
    /\ \E f \in index : db.rostros[f.id].persona_id = NULL

(***************************************************************************)
(* C2 as stated: a call of registrar_nueva_persona that ends CREATED for a *)
(* face farther than the threshold from every indexed face returns a       *)
(* person id that no earlier call has returned.                            *)
(***************************************************************************)
C2_Original ==
    [][(/\ EsRegistro(last')
        /\ last'.estado = "CREATED"
        /\ \A f \in index :
              ~Menor(Distancia(Similitud(f.vec, normalize_L2(last'.emb))),
                     UMBRAL_DEFECTO))
       => (last'.ret # NULL /\ last'.ret \notin creados)]_vars

(***************************************************************************)
(* C3 as stated: after registrar_nueva_persona has returned a person id p, *)
(* the person row p, the tag row of its etiqueta_id, a face row of person  *)
(* p and the persisted index entry of that face row all exist; and every   *)
(* non-null persona_id of a face row is the id of a person row.            *)
(***************************************************************************)
C3_Original ==
    /\ (EsRegistro(last) /\ last.estado = "CREATED")
       => /\ last.ret \in 1..Len(disk.personas)
          /\ disk.personas[last.ret].etiqueta_id \in 1..Len(disk.etiquetas)
          /\ \E r \in 1..Len(disk.rostros) :
                /\ disk.rostros[r].persona_id = last.ret
                /\ r \in Ids(index)
                /\ r \in Ids(indexDisk)
    /\ \A r \in 1..Len(disk.rostros) :
          disk.rostros[r].persona_id # NULL
          => disk.rostros[r].persona_id \in 1..Len(disk.personas)

(***************************************************************************)
(* C4 as stated: a call of registrar_nueva_persona that fails before its   *)
(* final commit leaves the committed tables as they were.                  *)
(***************************************************************************)
C4_Original ==
    [][(EsRegistro(last') /\ last'.estado = "FAILED") => disk' = disk]_vars

(***************************************************************************)
(* C5: in every state, also after a crash inside registrar_nueva_persona   *)
(* or guardar_rostros_detectados and a restart, the ids of the index, in   *)
(* RAM and in its file, are ids of committed face rows.                    *)
(***************************************************************************)
C5_Subconjunto ==
    /\ Ids(index) \subseteq 1..Len(disk.rostros)
    /\ Ids(indexDisk) \subseteq 1..Len(disk.rostros)

\* C5 witness: after a crash, a committed face row of a person has no
\* vector (fewer vectors than rows).
C5_Witness ==
    /\ last.op = "caida"
    /\ \E r \in 1..Len(disk.rostros) :
          /\ disk.rostros[r].persona_id # NULL
          /\ r \notin Ids(index)
          /\ r \notin Ids(indexDisk)

(***************************************************************************)
(* C6: as long as every operation has completed with its persist step (no  *)
(* index insert was lost), every committed face row with a non-null        *)
(* persona_id has an index entry of the same id, in RAM and in the file.   *)
(***************************************************************************)
C6_RostroIndexado ==
    completas
    => \A r \in 1..Len(disk.rostros) :
          disk.rostros[r].persona_id # NULL
          => (r \in Ids(index) /\ r \in Ids(indexDisk))

\* C6 witness: all operations completed, and the tables hold a face row of a
\* person next to a face row without one.
C6_Witness ==
    /\ completas
    /\ \E r \in 1..Len(disk.rostros) : disk.rostros[r].persona_id # NULL
    /\ \E r \in 1..Len(disk.rostros) : disk.rostros[r].persona_id = NULL

(***************************************************************************)
(* C7.  The conditions of a hit, stated on the index and the tables: the   *)
(* face o.rostro is an index entry of largest similarity to the query, its *)
(* distance 1 - similarity is strictly below the threshold, and its row    *)
(* has a person.                                                           *)
(***************************************************************************)
EsMasCercano(e, q) ==
    \A f \in index :
        Dot(f.vec.num, q.num) * e.vec.den <= Dot(e.vec.num, q.num) * f.vec.den

DistanciaEstricta(e, q, u) ==
    (e.vec.den * q.den - Dot(e.vec.num, q.num)) * u.den
        < u.num * (e.vec.den * q.den)

DistanciaIgual(e, q, u) ==
    (e.vec.den * q.den - Dot(e.vec.num, q.num)) * u.den
        = u.num * (e.vec.den * q.den)

C7_Acierto(o) ==
    /\ index # {}
    /\ o.rostro # NO_ENCONTRADO
    /\ \E e \in index :
          /\ e.id = o.rostro
          /\ EsMasCercano(e, normalize_L2(o.emb))
          /\ DistanciaEstricta(e, normalize_L2(o.emb), o.umbral)
    /\ o.rostro \in 1..Len(db.rostros)
    /\ db.rostros[o.rostro].persona_id # NULL

C7_Cuerpo(o) ==
    /\ o.estado # "RAISED"
    /\ (o.ret # NULL) <=> C7_Acierto(o)
    /\ C7_Acierto(o) => o.ret = db.rostros[o.rostro].persona_id

\* C7 as stated: for every query, identificar_persona_por_vector returns a
\* person exactly in the case of a hit, that person being the one of the
\* nearest face, and in every other case returns none and raises nothing.
C7_Original == (last.op = "identificar") => C7_Cuerpo(last)

\* C7 as amended: the same for every query of the index dimension (a query
\* of another length on a non-empty index fails the dimension assertion).
C7_Amended ==
    (last.op = "identificar" /\ Len(last.emb) = DIMENSION_EMBEDDING)
    => C7_Cuerpo(last)

\* C7 witness: a query whose nearest face has a person and lies at a
\* distance equal to the threshold was answered with no person.
C7_Witness ==
    /\ last.op = "identificar"
    /\ last.estado = "MISS"
    /\ \E e \in index :
          /\ e.id = last.rostro
          /\ DistanciaIgual(e, normalize_L2(last.emb), last.umbral)
          /\ PersonaDeRostro(db, e.id) # NULL

(***************************************************************************)
(* C8 as stated: every person whose etiqueta_id is set references a tag    *)
(* whose text is the person's name.                                        *)
(***************************************************************************)
C8_Original ==
    \A p \in 1..Len(disk.personas) :
        disk.personas[p].etiqueta_id # NULL
        => /\ disk.personas[p].etiqueta_id \in 1..Len(disk.etiquetas)
           /\ disk.etiquetas[disk.personas[p].etiqueta_id].texto
                = disk.personas[p].nombre

(***************************************************************************)
(* C9 as stated: renaming a person to a name that is the text of another   *)
(* person's tag returns False and leaves the committed tables unchanged.   *)
(***************************************************************************)
C9_Original ==
    [][(/\ last'.op = "renombrar"
        /\ last'.arg \in 1..Len(disk.personas)
        /\ \E q \in 1..Len(disk.personas) :
              /\ q # last'.arg
              /\ disk.personas[q].etiqueta_id \in 1..Len(disk.etiquetas)
              /\ disk.etiquetas[disk.personas[q].etiqueta_id].texto
                   = last'.nombre)
       => (last'.ret = 0 /\ disk' = disk)]_vars

(***************************************************************************)
(* C10 as stated: when renombrar_persona(p, n) returns True, the tag that  *)
(* obtener_etiqueta_id_de_persona(p) returns has text n, it is the tag the *)
(* person had before, and it is the only tag of text n.                    *)
(***************************************************************************)
C10_Original ==
    [][(last'.op = "renombrar" /\ last'.ret = 1)
       => LET t == obtener_etiqueta_id_de_persona([db |-> db'], last'.arg)
          IN  /\ t \in 1..Len(db'.etiquetas)
              /\ db'.etiquetas[t].texto = last'.nombre
              /\ t = obtener_etiqueta_id_de_persona([db |-> db], last'.arg)
              /\ Cardinality({i \in 1..Len(db'.etiquetas) :
                     db'.etiquetas[i].texto = last'.nombre}) = 1]_vars

(***************************************************************************)
(* C11 as stated: a call of registrar_foto with a (path, hash), and the    *)
(* same call made again, both return the same photo id, the second adds no *)
(* row, and the table then holds exactly one row of that hash.             *)
(***************************************************************************)
MundoSiguiente ==
    [db |-> db', disk |-> disk', index |-> index', indexDisk |-> indexDisk']

C11_Original ==
    [][(last'.op = "foto")
       => LET otra == registrar_foto(MundoSiguiente, last'.nombre, last'.arg)
          IN  /\ last'.estado = "OK"
              /\ ~otra.raised
              /\ otra.ret = last'.ret
              /\ otra.w.db.fotos = db'.fotos
              /\ Cardinality({i \in 1..Len(db'.fotos) :
                     db'.fotos[i].hash_md5 = last'.arg}) = 1]_vars

(***************************************************************************)
(* C12 as stated: a call of registrar_foto whose INSERT hits a uniqueness  *)
(* conflict (same hash, or same path with a different or null hash) does   *)
(* not raise and returns the id of an existing photo row.                  *)
(***************************************************************************)
C12_Original ==
    [][(/\ last'.op = "foto"
        /\ ConflictoFoto(db.fotos, last'.nombre, last'.arg))
       => (/\ last'.estado = "OK"
           /\ last'.ret \in 1..Len(db'.fotos))]_vars

(***************************************************************************)
(* C13: every call of crear_o_recuperar_etiqueta returns, without raising, *)
(* a non-null id whose row has the text passed; when a row of that text    *)
(* existed before the call it is that row's id and no row is added; no     *)
(* call changes the text of an existing row, and no two rows have the same *)
(* text.  (Hence all calls with the same text return the same id.)         *)
(***************************************************************************)
C13_ObtenerOCrear ==
    [][/\ (last'.op = "etiqueta")
          => /\ last'.estado = "OK"
             /\ last'.ret \in 1..Len(db'.etiquetas)
             /\ db'.etiquetas[last'.ret].texto = last'.nombre
             /\ \A i \in 1..Len(db.etiquetas) :
                   db.etiquetas[i].texto = last'.nombre
                   => (last'.ret = i /\ db'.etiquetas = db.etiquetas)
       /\ \A i \in 1..Len(db.etiquetas) :
             /\ i <= Len(db'.etiquetas)
             /\ db'.etiquetas[i].texto = db.etiquetas[i].texto
       /\ \A i, j \in 1..Len(db'.etiquetas) :
             db'.etiquetas[i].texto = db'.etiquetas[j].texto => i = j]_vars

\* C13 witness: a call passed the text of an existing row with another kind
\* than the row's, and got that row's id.
C13_Witness ==
    /\ last.op = "etiqueta"
    /\ Len(db.etiquetas) = Cardinality(Textos)
    /\ last.ret < Len(db.etiquetas)
    /\ \A i \in 1..Len(db.etiquetas) : db.etiquetas[i].tipo = "general"

(***************************************************************************)
(* C14: every call of asignar_etiqueta returns True and leaves exactly one *)
(* committed link row for its (photo, tag); when a row for the pair        *)
(* existed before the call, the table, and so the row's asignacion_manual, *)
(* is unchanged.                                                           *)
(***************************************************************************)
EnlacesDe(enlaces, f, t) ==
    {e \in enlaces : e.foto_id = f /\ e.etiqueta_id = t}

C14_Idempotente ==
    [][(last'.op = "enlace")
       => /\ last'.ret = 1
          /\ Cardinality(EnlacesDe(disk'.fotos_etiquetas,
                                   last'.ids[1], last'.ids[2])) = 1
          /\ EnlacesDe(disk.fotos_etiquetas, last'.ids[1], last'.ids[2]) # {}
                => disk'.fotos_etiquetas = disk.fotos_etiquetas]_vars

\* C14 witness: a repeated call passed the other value of manual, and the
\* row kept the value of the first call.
C14_Witness ==
    /\ last.op = "enlace"
    /\ \E e \in EnlacesDe(disk.fotos_etiquetas, last.ids[1], last.ids[2]) :
          (IF e.asignacion_manual THEN 1 ELSE 0) # last.ids[3]

(***************************************************************************)
(* C15.  The ids a call of guardar_rostros_detectados must return: one per *)
(* row it inserted, in order of insertion.                                 *)
(***************************************************************************)
IdsDelLote ==
    [i \in 1..(Len(db'.rostros) - Len(db.rostros)) |-> Len(db.rostros) + i]

\* C15 as stated: every call of guardar_rostros_detectados returns one face
\* id per detection in input order and leaves the index, in RAM and in its
\* file, as it was.
C15_Original ==
    [][(last'.op = "guardar")
       => (/\ last'.estado = "OK"
           /\ last'.ids = IdsDelLote
           /\ index' = index
           /\ indexDisk' = indexDisk)]_vars

\* C15 as amended: a call of guardar_rostros_detectados that returns (all
\* embeddings of the index dimension) returns one face id per detection in
\* input order, adds one index entry per returned id and no other, and
\* writes the index to its file.
C15_Amended ==
    [][(last'.op = "guardar" /\ last'.estado = "OK")
       => (/\ last'.ids = IdsDelLote
           /\ Ids(index') = Ids(index) \cup {last'.ids[i] : i \in DOMAIN last'.ids}
           /\ Cardinality(index') = Cardinality(index) + Len(last'.ids)
           /\ indexDisk' = index')]_vars

\* C15 witness: a batch of two detections was stored, and both ids are in
\* the index.
C15_Witness ==
    /\ last.op = "guardar"
    /\ last.estado = "OK"
    /\ Len(last.ids) = 2
    /\ {last.ids[1], last.ids[2]} \subseteq Ids(index)

(***************************************************************************)
(* C16 as stated: a call of registrar_nueva_persona or of                  *)
(* guardar_rostros_detectados that fails on an embedding whose length is   *)
(* not the index dimension leaves the tables and the index as they were.   *)
(***************************************************************************)
C16_Original ==
    [][(\/ (EsRegistro(last') /\ last'.estado = "FAILED_FAISS")
        \/ (last'.op = "guardar" /\ last'.estado = "RAISED"))
       => (/\ db' = db /\ disk' = disk
           /\ index' = index /\ indexDisk' = indexDisk)]_vars

(***************************************************************************)
(* C19 as stated: every index entry has a committed face row of its id     *)
(* whose embedding_blob is not null and is the raw embedding that was      *)
(* indexed (its normalisation is the entry's vector).                      *)
(***************************************************************************)
C19_Original ==
    \A e \in index :
        /\ e.id \in 1..Len(disk.rostros)
        /\ disk.rostros[e.id].embedding_blob # NULL_BLOB
        /\ normalize_L2(disk.rostros[e.id].embedding_blob) = e.vec

(***************************************************************************)
(* C17: whenever registrar_nueva_persona, guardar_rostros_detectados or    *)
(* cerrar has returned, the index file holds the entries of the index in   *)
(* RAM.                                                                    *)
(***************************************************************************)
C17_Persistido ==
    (last.op \in {"resolver", "guardar", "cerrar"})
    => (indexDisk = index /\ Ids(indexDisk) = Ids(index))

\* C17 witness: cerrar returned after a call that had failed in its FAISS
\* step, with entries in the index.
C17_Witness ==
    /\ last.op = "cerrar"
    /\ ~completas
    /\ index # {}

(***************************************************************************)
(* C18 as stated: a start-up that finds the database file without the      *)
(* index file reports the inconsistent deployment, and does not go on with *)
(* a new empty index next to committed face rows of persons.               *)
(***************************************************************************)
C18_Original ==
    [][(last'.op = "arranque")
       => (/\ last'.estado = "INCONSISTENTE"
           /\ ~(index' = {} /\ \E r \in 1..Len(db'.rostros) :
                                   db'.rostros[r].persona_id # NULL))]_vars

(***************************************************************************)
(* C20 as stated: when two threads have each run the per-face sequence for *)
(* embeddings within the threshold of each other, no indexed face having   *)
(* been within the threshold of either when they started, one of them      *)
(* ended CREATED and the other ended MATCHED with the person created.      *)
(***************************************************************************)
C20_Original ==
    (/\ \A t \in Hilos : hilos[t].pc = "fin" /\ hilos[t].fresco
     /\ Cerca(hilos[1].emb, hilos[2].emb))
    => \E t, u \in Hilos :
          /\ hilos[t].estado = "CREATED"
          /\ hilos[u].estado = "MATCHED"
          /\ hilos[u].ret = hilos[t].ret

(***************************************************************************)
(* C21: a person row is created with es_conocida false; the flag of a      *)
(* person becomes true, in the connection's view or in the committed       *)
(* tables, only in a step of renombrar_persona for that person that        *)
(* returns True; a call of renombrar_persona that returns False leaves     *)
(* every flag as it was.                                                   *)
(***************************************************************************)
Conocida(tablas, p) == p \in 1..Len(tablas.personas) /\ tablas.personas[p].es_conocida

C21_SoloPorRenombrar ==
    [][/\ \A p \in 1..Len(db'.personas) :
             (Conocida(db', p) /\ ~Conocida(db, p))
             => (last'.op = "renombrar" /\ last'.arg = p /\ last'.ret = 1)
       /\ \A p \in 1..Len(disk'.personas) :
             (Conocida(disk', p) /\ ~Conocida(disk, p))
             => (last'.op = "renombrar" /\ last'.arg = p /\ last'.ret = 1)
       /\ (last'.op = "renombrar" /\ last'.ret = 0)
             => \A p \in 1..Len(db'.personas) :
                   /\ Conocida(db', p) = Conocida(db, p)
                   /\ Conocida(disk', p) = Conocida(disk, p)]_vars

\* C21 witness: a rename of an existing person failed on a conflict, the
\* person is still not confirmed, and another person is.
C21_Witness ==
    /\ last.op = "renombrar"
    /\ last.ret = 0
    /\ last.arg \in 1..Len(db.personas)
    /\ ~Conocida(db, last.arg)
    /\ \E q \in 1..Len(db.personas) : Conocida(disk, q)

(***************************************************************************)
(* C22 as stated: procesar_foto on a registered photo finishes normally    *)
(* with that photo's procesada_facial set (in the connection and           *)
(* committed), and the flag of every other photo is as it was.             *)
(***************************************************************************)
C22_Original ==
    [][(last'.op = "procesar_foto")
       => /\ last'.estado = "OK"
          /\ db'.fotos[last'.arg].procesada_facial
          /\ disk'.fotos[last'.arg].procesada_facial
          /\ \A q \in 1..Len(db.fotos) :
                q # last'.arg
                => /\ db'.fotos[q].procesada_facial
                      = db.fotos[q].procesada_facial
                   /\ disk'.fotos[q].procesada_facial
                      = disk.fotos[q].procesada_facial]_vars

(***************************************************************************)
(* C23 as stated: when anadir_etiquetas has run on the list of persons     *)
(* procesando_caras resolved for photo P, it has returned normally, the    *)
(* tag of every person of the list that has one is linked to P by a link   *)
(* with asignacion_manual false, and the links of every other photo are    *)
(* as they were.                                                           *)
(***************************************************************************)
C23_Original ==
    [][(last'.op = "etiquetar")
       => /\ last'.estado = "OK"
          /\ \A k \in DOMAIN last'.ids :
                LET t == obtener_etiqueta_id_de_persona(Mundo, last'.ids[k])
                IN  t # NULL
                    => [foto_id |-> last'.arg, etiqueta_id |-> t,
                        asignacion_manual |-> FALSE] \in db'.fotos_etiquetas
          /\ {l \in db'.fotos_etiquetas : l.foto_id # last'.arg}
                = {l \in db.fotos_etiquetas : l.foto_id # last'.arg}]_vars

\* The store as it is.
SinCambios ==
    /\ db' = db /\ disk' = disk /\ index' = index /\ indexDisk' = indexDisk

(***************************************************************************)
(* C24: a look-up or rename by an id that has no row raises nothing and    *)
(* changes nothing: obtener_ruta_foto returns None,                        *)
(* obtener_etiqueta_id_de_persona returns None, renombrar_persona returns  *)
(* False, and the tables (connection and committed) and the index (RAM     *)
(* and file) are as before the call.                                       *)
(***************************************************************************)
C24_Ausente ==
    [][/\ (last'.op = "ruta" /\ last'.arg \notin 1..Len(db.fotos))
          => (last'.estado # "RAISED" /\ last'.nombre = SIN_RUTA
              /\ SinCambios)
       /\ (last'.op = "etiqueta_de" /\ last'.arg \notin 1..Len(db.personas))
          => (last'.estado # "RAISED" /\ last'.ret = NULL /\ SinCambios)
       /\ (last'.op = "renombrar" /\ last'.arg \notin 1..Len(db.personas))
          => (last'.estado # "RAISED" /\ last'.ret = 0 /\ SinCambios)]_vars

\* C24 witness: obtener_ruta_foto was called with an id that has no row,
\* on a store that has photos, persons and index entries.
C24_Witness ==
    /\ last.op = "ruta"
    /\ last.arg \notin 1..Len(db.fotos)
    /\ last.nombre = SIN_RUTA
    /\ db.fotos # <<>>
    /\ db.personas # <<>>
    /\ index # {}

(***************************************************************************)
(* C25 as stated: in every call of registrar_nueva_persona, the call of    *)
(* crear_o_recuperar_etiqueta that follows the person INSERT leaves the    *)
(* pending person row pending: the personas table of the connection and    *)
(* the committed personas table are the same after it as before it.        *)
(***************************************************************************)
C25_Original ==
    [][(last'.op = "registrar")
       => LET r == registrar_nueva_persona(Mundo, last'.arg, last'.emb, TRUE,
                                           last'.nombre)
          IN  /\ r.pasos[2].db.personas = r.pasos[1].db.personas
              /\ r.pasos[2].disk.personas = r.pasos[1].disk.personas]_vars

(***************************************************************************)
(* C26: a resolution that ends MATCHED changes nothing.  A call of         *)
(* identificar_persona_por_vector, a turn of procesando_caras whose face   *)
(* is identified, and a call of procesando_caras all of whose faces are    *)
(* identified leave the tables (connection and committed) and the index    *)
(* (RAM and file) as they were.                                            *)
(***************************************************************************)
C26_SinCambios ==
    [][/\ \A c \in Embeddings : \A t \in Turno(Mundo, c) :
             t.estado = "MATCHED" => t.w = Mundo
       /\ (last'.op = "identificar") => SinCambios
       /\ (last'.op = "procesando" /\ last'.estado = "MATCHED")
             => SinCambios]_vars

\* C26 witness: procesando_caras returned with every face of a list of
\* MaxLote faces identified.
C26_Witness ==
    /\ last.op = "procesando"
    /\ last.estado = "MATCHED"
    /\ Len(last.ids) = MaxLote
    /\ index # {}

(***************************************************************************)
(* C27 as stated: every face row created by procesando_caras of the        *)
(* processor of photo P has foto_id P.                                     *)
(***************************************************************************)
C27_Original ==
    [][(last'.op = "procesando")
       => \A r \in (Len(db.rostros) + 1)..Len(db'.rostros) :
             db'.rostros[r].foto_id = last'.arg]_vars

====
